---- MODULE Spec2Model ----
(***************************************************************************)
(* A model of soxr-rs: the resampler session `Soxr<In, Out, N>` (lib.rs),  *)
(* its owned engine handle `SoxrPtr` (raw.rs), the error model (error.rs), *)
(* the planar buffer constructors (buffer.rs), the sample formats and      *)
(* layouts (format.rs) and the runtime parameters (params.rs).             *)
(*                                                                         *)
(* The resampling engine (libsoxr, reached through libsoxr_sys) is not     *)
(* part of the repository.  It is modelled as an abstract environment      *)
(* from the call contract of the specification: a set of handles, each     *)
(* holding a number of frames that were consumed and not yet produced.     *)
(*                                                                         *)
(* usize and c_uint values that matter for their width are little-endian   *)
(* tuples of 16-bit limbs (usize: 4 limbs, c_uint: 2 limbs), so that       *)
(* values beyond 2^32 are represented exactly.                             *)
(***************************************************************************)
EXTENDS Integers, Sequences, FiniteSets, TLC

VARIABLES
    session,    \* the caller's variable that holds the Soxr value
    engine,     \* the engine's state, per handle
    allocated,  \* number of handles soxr_create has returned so far
    lastCall,   \* the call the last operation made into the engine, if any
    lastOp,     \* the most recent wrapper operation and what it returned
    planar,     \* the most recent PlanarBuf / PlanarMut construction
    owner,      \* [concurrency] the thread that owns the Soxr value
    borrows,    \* [concurrency] the references to the Soxr value, per thread
    inflight,   \* [concurrency] the method each thread is running, if any
    format,     \* the most recent datatype() and io_spec() results
    runtime     \* the caller's RuntimeSpec value and the last call on it

vars == <<session, engine, allocated, lastCall, lastOp, planar,
          owner, borrows, inflight, format, runtime>>

seqVars == <<session, engine, allocated, lastCall, lastOp>>
concVars == <<owner, borrows, inflight>>
paramVars == <<format, runtime>>

----------------------------------------------------------------------------
(* Bounds of the model *)

MaxHandles == 2     \* handles the engine hands out (sessions created)
MaxFrames == 2      \* longest input / output buffer, in frames
MaxPlanes == 3      \* most channels of a planar buffer
MaxPlaneLen == 3    \* longest plane slice of a planar buffer
NumThreads == 3     \* threads that may hold or borrow the session
MaxHeld == 2        \* frames the engine can hold between calls
MaxChannels == 3    \* largest CHANNELS of an Interleaved or Planar layout
MaxValue == 1       \* largest value given to a RuntimeSpec field
NumDiags == 1       \* distinct diagnostic strings of the engine

Handles == 1..MaxHandles
Threads == 1..NumThreads
Diags == 1..NumDiags

Min(a, b) == IF a <= b THEN a ELSE b

----------------------------------------------------------------------------
(* Machine integers *)

UsizeLimbs == 4     \* ChannelCount = usize, 64 bits
CUintLimbs == 2     \* c_uint, 32 bits
LimbMax == 2^16 - 1

Usize(l1, l2, l3, l4) == <<l1, l2, l3, l4>>

\* The channel counts N the model instantiates Soxr<In, Out, N> with:
\* 1, 2, c_uint::MAX, c_uint::MAX + 1, 2^48 + 2 and usize::MAX.
ChannelCounts ==
    { Usize(1, 0, 0, 0), Usize(2, 0, 0, 0),
      Usize(LimbMax, LimbMax, 0, 0), Usize(0, 0, 1, 0),
      Usize(2, 0, 0, 1), Usize(LimbMax, LimbMax, LimbMax, LimbMax) }

\* Faulty variant: the truncating cast `N as c_uint`.
c_uint_try_from_wrapping(n) ==
    [tag |-> "Ok", val |-> SubSeq(n, 1, CUintLimbs)]

\* c_uint::try_from(N): Ok(value) when the value fits 32 bits, Err otherwise.
c_uint_try_from(n) ==
    IF \A i \in (CUintLimbs + 1)..UsizeLimbs : n[i] = 0
    THEN [tag |-> "Ok", val |-> SubSeq(n, 1, CUintLimbs)]
    ELSE [tag |-> "Err", val |-> <<>>]

\* A c_uint widened back to usize.
Widen(c) == c \o [i \in 1..(UsizeLimbs - CUintLimbs) |-> 0]

\* The usize of a natural number below 2^31.
UsizeOf(k) == Usize(k % 2^16, k \div 2^16, 0, 0)

\* k * n in usize arithmetic (wrapping at 2^64), for k below 2^15.
UsizeMul(k, n) ==
    LET p1 == k * n[1]
        p2 == k * n[2] + (p1 \div 2^16)
        p3 == k * n[3] + (p2 \div 2^16)
        p4 == k * n[4] + (p3 \div 2^16)
    IN Usize(p1 % 2^16, p2 % 2^16, p3 % 2^16, p4 % 2^16)

\* The smaller of a usize and a natural number below 2^16.
UsizeMin(n, k) ==
    IF n[2] = 0 /\ n[3] = 0 /\ n[4] = 0 /\ n[1] <= k THEN n[1] ELSE k

\* The rate pairs (input_rate, output_rate) sessions are created with.
RatePairs == { <<48000, 44100>>, <<44100, 44100>> }

----------------------------------------------------------------------------
(* error.rs *)

NullPtr == 0

CHANNEL_COUNT_TOO_LARGE ==
    [src |-> "static", ptr |-> NullPtr,
     msg |-> "channel count does not fit in c_uint"]

Error_from_raw(error) == [src |-> "engine", ptr |-> error, msg |-> ""]

\* Result values.  Ok(()) and Ok(Soxr) carry nothing the model reads, Ok(usize)
\* carries output_frames, Ok(Processed) input_frames and output_frames, and
\* Err(Error) carries the error alone.
OkUnit == [tag |-> "Ok"]

OkCount(out_frames) == [tag |-> "Ok", output_frames |-> out_frames]

Processed(in_frames, out_frames) ==
    [tag |-> "Ok", input_frames |-> in_frames, output_frames |-> out_frames]

Err(e) == [tag |-> "Err", err |-> e]

\* Faulty variant: the test of the diagnostic inverted.
Error_check_inverted(error) ==
    IF error = NullPtr THEN Err(Error_from_raw(error)) ELSE OkUnit

\* Error::check: Ok(()) for a null diagnostic, Err(from_raw) otherwise.
Error_check(error) ==
    IF error = NullPtr THEN OkUnit ELSE Err(Error_from_raw(error))

----------------------------------------------------------------------------
(* The engine (libsoxr), from its call contract *)

Unallocated ==
    [status |-> "unalloc", channels |-> <<>>, rates |-> <<>>,
     held |-> 0, flushing |-> FALSE, deletes |-> 0]

\* The state of an engine instance right after soxr_create.
FreshEngine(channels, rates) ==
    [status |-> "live", channels |-> channels, rates |-> rates,
     held |-> 0, flushing |-> FALSE, deletes |-> 0]

IsLive(h) == h \in Handles /\ engine[h].status = "live"

\* soxr_create: a fresh non-null handle and no diagnostic, or a null handle
\* and a diagnostic.
soxr_create_replies ==
    {[ptr |-> allocated + 1, error |-> NullPtr]}
        \cup {[ptr |-> NullPtr, error |-> d] : d \in Diags}

\* soxr_process on a live handle.  With an input buffer the engine consumes
\* at most ilen frames and produces at most olen of the frames it holds;
\* with a null input it is told the input has ended and flushes: it
\* produces at least one frame whenever it holds one and olen allows.
\* A failing call returns a diagnostic and changes nothing.
soxr_process_replies(call) ==
    IF ~IsLive(call.h)
    THEN {[ret |-> d, idone |-> 0, odone |-> 0, held |-> 0, flushing |-> FALSE]
            : d \in {NullPtr} \cup Diags}
    ELSE LET e == engine[call.h] IN
         {[ret |-> d, idone |-> 0, odone |-> 0,
           held |-> e.held, flushing |-> e.flushing] : d \in Diags}
         \cup
         (IF call.inp = "null"
          THEN LET avail == UsizeMin(call.olen, e.held) IN
               {[ret |-> NullPtr, idone |-> 0, odone |-> o,
                 held |-> e.held - o, flushing |-> TRUE]
                  : o \in (IF avail = 0 THEN {0} ELSE 1..avail)}
          ELSE UNION {
                 {[ret |-> NullPtr, idone |-> i, odone |-> o,
                   held |-> e.held + i - o, flushing |-> e.flushing]
                    : o \in 0..UsizeMin(call.olen, e.held + i)}
                 : i \in 0..UsizeMin(call.ilen, MaxHeld - e.held)})

\* soxr_clear on a live handle: back to the state after soxr_create with the
\* same configuration, or a diagnostic and no change.
soxr_clear_replies(call) ==
    IF ~IsLive(call.h)
    THEN {[ret |-> d, idone |-> 0, odone |-> 0, held |-> 0, flushing |-> FALSE]
            : d \in {NullPtr} \cup Diags}
    ELSE {[ret |-> NullPtr, idone |-> 0, odone |-> 0,
           held |-> 0, flushing |-> FALSE]}
         \cup {[ret |-> d, idone |-> 0, odone |-> 0,
                held |-> engine[call.h].held,
                flushing |-> engine[call.h].flushing] : d \in Diags}

\* What the engine may reply to a process or clear call.
soxr_replies(call) ==
    IF call.fn = "clear" THEN soxr_clear_replies(call)
                         ELSE soxr_process_replies(call)

\* The engine after a process or clear call returned `reply`.
EngineAfter(call, reply) ==
    IF IsLive(call.h)
    THEN [engine EXCEPT ![call.h].held = reply.held,
                        ![call.h].flushing = reply.flushing]
    ELSE engine

\* The engine after soxr_create returned `reply`.
EngineAfterCreate(call, reply) ==
    IF reply.ptr = NullPtr
    THEN engine
    ELSE [engine EXCEPT ![reply.ptr] = FreshEngine(call.channels, call.rates)]

\* The engine after soxr_delete(h).
EngineAfterDelete(h) ==
    IF h \in Handles
    THEN [engine EXCEPT ![h] = [Unallocated EXCEPT
                                   !.status = "deleted",
                                   !.deletes = Min(engine[h].deletes + 1, 2)]]
    ELSE engine

\* A call into the engine, as the model records it.
Call(fn, h, inp, ilen, idone, olen, channels, rates) ==
    [fn |-> fn, h |-> h, inp |-> inp, ilen |-> ilen, idone |-> idone,
     olen |-> olen, channels |-> channels, rates |-> rates]

NoCall == Call("none", NullPtr, "null", UsizeOf(0), "null", UsizeOf(0),
              <<>>, <<>>)

----------------------------------------------------------------------------
(* raw.rs: SoxrPtr *)

SoxrPtr_from_raw(ptr) == ptr

\* Faulty variant: a null handle instead of the wrapped one.
SoxrPtr_as_ptr_null(soxr) == NullPtr

\* SoxrPtr::as_ptr: the wrapped handle.
SoxrPtr_as_ptr(soxr) == soxr

\* Faulty variant: a drop that does not call soxr_delete.
SoxrPtr_drop_leak(soxr) == <<>>

\* Drop for SoxrPtr: the engine calls made when the value is dropped.
SoxrPtr_drop(soxr) ==
    << Call("delete", soxr, "null", UsizeOf(0), "null", UsizeOf(0),
            <<>>, <<>>) >>

----------------------------------------------------------------------------
(* lib.rs: Soxr<In, Out, N> *)

\* The methods of `impl Soxr`.
SoxrMethods ==
    {"io_spec", "new", "new_with_params", "as_ptr", "process", "drain", "clear"}

\* The caller's variable when it holds no Soxr value: not yet ("none"),
\* because creation failed ("failed"), or any more ("dropped").
NoSession(st, n, creates) ==
    [st |-> st, soxr |-> NullPtr, N |-> n, creates |-> creates,
     zero |-> "none", taken |-> FALSE]

\* A slice &[[S; N]] of `frames` frames.
Slice(frames, n) == [frames |-> frames, N |-> n]

Slices(n) == {Slice(k, n) : k \in 0..MaxFrames}

\* slice.len() of a slice of frames: the number of frames.
slice_len(slice) == UsizeOf(slice.frames)

\* The length of the flat sample slice bytemuck::must_cast_slice gives:
\* frames * N.
flat_len(slice) == UsizeMul(slice.frames, slice.N)

\* Soxr::as_ptr
Soxr_as_ptr(self) == SoxrPtr_as_ptr(self.soxr)

\* Soxr::new_with_params for channel count n, given the reply soxr_create
\* makes if it is called: the create calls made and the result.
new_with_params(n, rates, reply) ==
    LET channels == c_uint_try_from(n) IN
    IF channels.tag = "Err"
    THEN [calls |-> <<>>, res |-> Err(CHANNEL_COUNT_TOO_LARGE), soxr |-> NullPtr]
    ELSE [calls |-> << Call("create", NullPtr, "null", UsizeOf(0), "null",
                            UsizeOf(0), channels.val, rates) >>,
          res |-> IF reply.ptr = NullPtr
                  THEN Err(Error_from_raw(reply.error))
                  ELSE OkUnit,
          soxr |-> IF reply.ptr = NullPtr
                   THEN NullPtr
                   ELSE SoxrPtr_from_raw(reply.ptr)]

\* Faulty variant: the lengths taken after the cast to flat sample slices.
process_call_samples(self, input, output) ==
    Call("process", Soxr_as_ptr(self), "buf", flat_len(input), "ptr",
         flat_len(output), <<>>, <<>>)

\* Soxr::process: the soxr_process call it makes.
process_call(self, input, output) ==
    Call("process", Soxr_as_ptr(self), "buf", slice_len(input), "ptr",
         slice_len(output), <<>>, <<>>)

\* Soxr::process: what it returns when the engine replied `reply`.
process_result(reply) ==
    LET checked == Error_check(reply.ret) IN
    IF checked.tag = "Err" THEN checked
                           ELSE Processed(reply.idone, reply.odone)

\* Faulty variant: an empty input buffer instead of a null input.
drain_call_empty_input(self, output) ==
    Call("process", Soxr_as_ptr(self), "buf", UsizeOf(0), "ptr",
         slice_len(output), <<>>, <<>>)

\* Soxr::drain: the soxr_process call it makes.
drain_call(self, output) ==
    Call("process", Soxr_as_ptr(self), "null", UsizeOf(0), "null",
         slice_len(output), <<>>, <<>>)

\* Soxr::drain: what it returns when the engine replied `reply`.
drain_result(reply) ==
    LET checked == Error_check(reply.ret) IN
    IF checked.tag = "Err" THEN checked ELSE OkCount(reply.odone)

\* Faulty variant: soxr_process with null buffers instead of soxr_clear.
clear_call_flush(self) ==
    Call("process", Soxr_as_ptr(self), "null", UsizeOf(0), "null",
         UsizeOf(0), <<>>, <<>>)

\* Soxr::clear: the soxr_clear call it makes.
clear_call(self) ==
    Call("clear", Soxr_as_ptr(self), "null", UsizeOf(0), "null", UsizeOf(0),
         <<>>, <<>>)

\* Soxr::clear: what it returns when the engine replied `reply`.
clear_result(reply) == Error_check(reply.ret)

----------------------------------------------------------------------------
(* The record of the last operation and of the last engine call *)

\* An operation on the session: its name, the frames of the buffers it was
\* given, what it returned (for as_ptr: the handle `ptr`), the engine calls it
\* made and the frames the engine held before it; for a drain, also the
\* zero drains recorded before it (session.zero as the drain found it).
Op(op, input_len, output_len, res, ptr, ncalls, held_before) ==
    [op |-> op, input_len |-> input_len, output_len |-> output_len,
     res |-> res, ptr |-> ptr, ncalls |-> ncalls, held_before |-> held_before,
     zero_before |-> "none"]

NoOp == Op("none", 0, 0, OkUnit, NullPtr, 0, 0)

\* An engine call with what it returned (the diagnostic, and the counts it
\* wrote) and whether its handle was live (returned by soxr_create, not yet
\* passed to soxr_delete) when it was made.
Made(call, ret, idone, odone) ==
    [call |-> call, ret |-> ret, idone |-> idone, odone |-> odone,
     live |-> IF call.fn = "create" THEN TRUE ELSE IsLive(call.h)]

NoneMade == [call |-> NoCall, ret |-> NullPtr, idone |-> 0, odone |-> 0,
             live |-> TRUE]

\* The frames the engine holds for the session's handle.
Held == IF IsLive(session.soxr) THEN engine[session.soxr].held ELSE 0

----------------------------------------------------------------------------
(* The operations of a session *)

\* The drains that returned Ok(0) since the last process or clear:
\* "none", "empty" (only with an empty output buffer) or "nonempty".
ZeroAfterDrain(zero, output_len, res) ==
    IF res.tag = "Ok" /\ res.output_frames = 0
    THEN (IF output_len > 0 \/ zero = "nonempty" THEN "nonempty" ELSE "empty")
    ELSE zero

\* Whether a drain since the last process or clear returned frames.
TakenAfterDrain(taken, res) ==
    taken \/ (res.tag = "Ok" /\ res.output_frames > 0)

\* Soxr::new / Soxr::new_with_params::<N>, the result bound to the variable
New ==
    /\ session.st # "live"
    /\ allocated < MaxHandles
    /\ \E n \in ChannelCounts, rates \in RatePairs, reply \in soxr_create_replies :
         LET r == new_with_params(n, rates, reply)
             made == Len(r.calls) > 0
         IN /\ session' =
                  IF r.res.tag = "Ok"
                  THEN [st |-> "live", soxr |-> r.soxr, N |-> n,
                        creates |-> r.calls, zero |-> "none",
                        taken |-> FALSE]
                  ELSE NoSession("failed", n, r.calls)
            /\ engine' = IF made THEN EngineAfterCreate(r.calls[1], reply)
                                 ELSE engine
            /\ allocated' = IF made /\ reply.ptr # NullPtr
                            THEN allocated + 1 ELSE allocated
            /\ lastCall' = IF made
                           THEN Made(r.calls[1], reply.error, 0, 0)
                           ELSE NoneMade
            /\ lastOp' = Op("new", 0, 0, r.res, NullPtr, Len(r.calls), 0)
    /\ UNCHANGED <<planar, concVars, paramVars>>

\* Soxr::process: the call, the engine's reply and the result.
ProcessStep ==
    /\ session.st = "live"
    /\ \E input \in Slices(session.N), output \in Slices(session.N) :
         LET call == process_call(session, input, output) IN
         \E reply \in soxr_replies(call) :
            /\ engine' = EngineAfter(call, reply)
            /\ lastCall' = Made(call, reply.ret, reply.idone, reply.odone)
            /\ lastOp' = Op("process", input.frames, output.frames,
                            process_result(reply), NullPtr, 1, Held)
            /\ session' = [session EXCEPT !.zero = "none", !.taken = FALSE]
    /\ UNCHANGED allocated

\* Soxr::drain: the call, the engine's reply and the result.
DrainStep ==
    /\ session.st = "live"
    /\ \E output \in Slices(session.N) :
         LET call == drain_call(session, output) IN
         \E reply \in soxr_replies(call) :
            /\ engine' = EngineAfter(call, reply)
            /\ lastCall' = Made(call, reply.ret, reply.idone, reply.odone)
            /\ lastOp' = [Op("drain", 0, output.frames,
                             drain_result(reply), NullPtr, 1, Held)
                            EXCEPT !.zero_before = session.zero]
            /\ session' = [session EXCEPT
                  !.zero = ZeroAfterDrain(@, output.frames, drain_result(reply)),
                  !.taken = TakenAfterDrain(@, drain_result(reply))]
    /\ UNCHANGED allocated

\* Soxr::clear: the call, the engine's reply and the result.
ClearStep ==
    /\ session.st = "live"
    /\ LET call == clear_call(session) IN
       \E reply \in soxr_replies(call) :
          /\ engine' = EngineAfter(call, reply)
          /\ lastCall' = Made(call, reply.ret, reply.idone, reply.odone)
          /\ lastOp' = Op("clear", 0, 0, clear_result(reply), NullPtr, 1, Held)
          /\ session' = [session EXCEPT !.zero = "none", !.taken = FALSE]
    /\ UNCHANGED allocated

\* Soxr::as_ptr: no engine call.
AsPtrStep ==
    /\ session.st = "live"
    /\ lastOp' = Op("as_ptr", 0, 0, OkUnit, Soxr_as_ptr(session), 0, Held)
    /\ lastCall' = NoneMade
    /\ UNCHANGED <<session, engine, allocated>>

\* Drop for Soxr: its SoxrPtr field is dropped.
DropStep ==
    /\ session.st = "live"
    /\ LET calls == SoxrPtr_drop(session.soxr) IN
          /\ engine' = IF Len(calls) > 0 THEN EngineAfterDelete(calls[1].h)
                                         ELSE engine
          /\ lastCall' = IF Len(calls) > 0 THEN Made(calls[1], NullPtr, 0, 0)
                                           ELSE NoneMade
          /\ lastOp' = Op("drop", 0, 0, OkUnit, NullPtr, Len(calls), Held)
    /\ session' = NoSession("dropped", <<>>, <<>>)
    /\ UNCHANGED allocated

\* Soxr::process
Process == ProcessStep /\ UNCHANGED <<planar, concVars, paramVars>>

\* Soxr::drain
Drain == DrainStep /\ UNCHANGED <<planar, concVars, paramVars>>

\* Soxr::clear
Clear == ClearStep /\ UNCHANGED <<planar, concVars, paramVars>>

\* Soxr::as_ptr, called by the owner of the session
AsPtr == AsPtrStep /\ UNCHANGED <<planar, concVars, paramVars>>

\* The Soxr value goes out of scope.
Drop == DropStep /\ UNCHANGED <<planar, concVars, paramVars>>

----------------------------------------------------------------------------
(* buffer.rs: PlanarBuf and PlanarMut *)

\* The arrays [&[S]; CHANNELS] of plane slices, each plane given by its length.
PlaneArrays ==
    UNION {[1..c -> 0..MaxPlaneLen] : c \in 0..MaxPlanes}

Built(frames) ==
    [tag |-> "Ok", frames |-> frames, index |-> 0, length |-> 0,
     expected |-> 0, calls |-> <<>>]

Panic(index, length, expected) ==
    [tag |-> "Panic", frames |-> 0, index |-> index, length |-> length,
     expected |-> expected, calls |-> <<>>]

\* array::from_fn over the plane indices from `index` (0-based) on: the
\* closure panics at the first plane whose length is not `frames`.
RECURSIVE from_fn_validate(_, _, _)
from_fn_validate(planes, frames, index) ==
    IF index >= Len(planes)
    THEN Built(frames)
    ELSE LET length == planes[index + 1] IN
         IF length # frames
         THEN Panic(index, length, frames)
         ELSE from_fn_validate(planes, frames, index + 1)

\* Faulty variant: only a plane longer than the first is refused.
RECURSIVE from_fn_validate_longer(_, _, _)
from_fn_validate_longer(planes, frames, index) ==
    IF index >= Len(planes)
    THEN Built(frames)
    ELSE LET length == planes[index + 1] IN
         IF length > frames
         THEN Panic(index, length, frames)
         ELSE from_fn_validate_longer(planes, frames, index + 1)

\* planes.get(0).unwrap_or(&[]).len()
first_plane_len(planes) == IF Len(planes) > 0 THEN planes[1] ELSE 0

PlanarBuf_new_longer(planes) ==
    from_fn_validate_longer(planes, first_plane_len(planes), 0)

\* PlanarBuf::new
PlanarBuf_new(planes) ==
    from_fn_validate(planes, first_plane_len(planes), 0)

\* PlanarMut::new
PlanarMut_new(planes) ==
    from_fn_validate(planes, first_plane_len(planes), 0)

\* PlanarBuf::frames / PlanarMut::frames
Planar_frames(buf) == buf.frames

NoPlanar == [kind |-> "none", planes |-> <<>>, out |-> Built(0)]

NewPlanarBuf ==
    /\ \E planes \in PlaneArrays :
         planar' = [kind |-> "PlanarBuf", planes |-> planes,
                    out |-> PlanarBuf_new(planes)]
    /\ UNCHANGED <<seqVars, concVars, paramVars>>

NewPlanarMut ==
    /\ \E planes \in PlaneArrays :
         planar' = [kind |-> "PlanarMut", planes |-> planes,
                    out |-> PlanarMut_new(planes)]
    /\ UNCHANGED <<seqVars, concVars, paramVars>>

----------------------------------------------------------------------------
(* One session among threads: ownership, borrows and calls in flight *)

Methods == {"process", "drain", "clear", "as_ptr"}

EngineCalls == {"process", "drain", "clear", "delete"}

\* Faulty variant: every method takes &self.
Receiver_shared(m) == "shared"

\* The receiver of each method: &mut self for process, drain and clear,
\* &self for as_ptr.
Receiver(m) == IF m = "as_ptr" THEN "shared" ELSE "mut"

\* SoxrPtr is Send: the value (or a &mut to it) may go to another thread.
IsSend == TRUE

\* SoxrPtr is Sync: a & to the value may go to another thread.
IsSync == TRUE

Unborrowed == \A t \in Threads : borrows[t] = "none"

CanReach(t, kind) ==
    \/ t = owner
    \/ IF kind = "shared" THEN IsSync ELSE IsSend

\* The owner gives the value to another thread.
Move(t, u) ==
    /\ session.st = "live" /\ owner = t /\ u # t /\ IsSend
    /\ Unborrowed
    /\ owner' = u
    /\ UNCHANGED <<borrows, inflight, seqVars, planar, paramVars>>

\* Thread t takes a & to the value.
BorrowShared(t) ==
    /\ session.st = "live" /\ borrows[t] = "none" /\ CanReach(t, "shared")
    /\ \A u \in Threads : borrows[u] # "mut"
    /\ borrows' = [borrows EXCEPT ![t] = "shared"]
    /\ UNCHANGED <<owner, inflight, seqVars, planar, paramVars>>

\* Thread t takes a &mut to the value.
BorrowMut(t) ==
    /\ session.st = "live" /\ CanReach(t, "mut")
    /\ Unborrowed
    /\ borrows' = [borrows EXCEPT ![t] = "mut"]
    /\ UNCHANGED <<owner, inflight, seqVars, planar, paramVars>>

\* Thread t's reference ends.
Release(t) ==
    /\ borrows[t] # "none" /\ inflight[t] = "none"
    /\ borrows' = [borrows EXCEPT ![t] = "none"]
    /\ UNCHANGED <<owner, inflight, seqVars, planar, paramVars>>

\* What method m does to the session and the engine.
MethodStep(m) ==
    \/ m = "process" /\ ProcessStep
    \/ m = "drain" /\ DrainStep
    \/ m = "clear" /\ ClearStep
    \/ m = "as_ptr" /\ AsPtrStep

\* Thread t calls method m through its reference: the method makes its
\* engine call on t, and stays in flight until End(t).
Begin(t, m) ==
    /\ inflight[t] = "none"
    /\ \/ borrows[t] = "mut"
       \/ borrows[t] = "shared" /\ Receiver(m) = "shared"
    /\ MethodStep(m)
    /\ inflight' = [inflight EXCEPT ![t] = m]
    /\ UNCHANGED <<owner, borrows, planar, paramVars>>

\* Thread t's call (or its drop of the value) returns.
End(t) ==
    /\ inflight[t] # "none"
    /\ inflight' = [inflight EXCEPT ![t] = "none"]
    /\ UNCHANGED <<owner, borrows, seqVars, planar, paramVars>>

\* The owner drops the value: soxr_delete runs on its thread.
DropOwned(t) ==
    /\ owner = t
    /\ Unborrowed
    /\ inflight[t] = "none"
    /\ DropStep
    /\ inflight' = [inflight EXCEPT ![t] =
                       IF lastCall'.call.fn = "delete" THEN "delete"
                                                       ELSE "none"]
    /\ UNCHANGED <<owner, borrows, planar, paramVars>>

----------------------------------------------------------------------------
(* format.rs: sample formats, layouts and their engine datatype codes *)

\* The engine's soxr_datatype_t codes, as libsoxr_sys exports them.
SOXR_FLOAT32_I == 0
SOXR_FLOAT64_I == 1
SOXR_INT32_I == 2
SOXR_INT16_I == 3
SOXR_FLOAT32_S == 4
SOXR_FLOAT64_S == 5
SOXR_INT32_S == 6
SOXR_INT16_S == 7

SampleFormat == {"Int16", "Int32", "Float32", "Float64"}

\* The types that implement Sample.
SampleTypes == {"i16", "i32", "f32", "f64"}

\* Sample::FORMAT of each implementing type.
Sample_FORMAT(S) ==
    CASE S = "i16" -> "Int16"
      [] S = "i32" -> "Int32"
      [] S = "f32" -> "Float32"
      [] S = "f64" -> "Float64"

\* format.rs, fn interleaved, with Float32 and Float64 sent to the 16-bit
\* integer code.
format_interleaved_int16(S) ==
    CASE Sample_FORMAT(S) = "Int16" -> SOXR_INT16_I
      [] Sample_FORMAT(S) = "Int32" -> SOXR_INT32_I
      [] Sample_FORMAT(S) = "Float32" -> SOXR_INT16_I
      [] Sample_FORMAT(S) = "Float64" -> SOXR_INT16_I

\* format.rs, fn interleaved.
format_interleaved(S) ==
    CASE Sample_FORMAT(S) = "Int16" -> SOXR_INT16_I
      [] Sample_FORMAT(S) = "Int32" -> SOXR_INT32_I
      [] Sample_FORMAT(S) = "Float32" -> SOXR_FLOAT32_I
      [] Sample_FORMAT(S) = "Float64" -> SOXR_FLOAT64_I

\* format.rs, fn planar.
format_planar(S) ==
    CASE Sample_FORMAT(S) = "Int16" -> SOXR_INT16_S
      [] Sample_FORMAT(S) = "Int32" -> SOXR_INT32_S
      [] Sample_FORMAT(S) = "Float32" -> SOXR_FLOAT32_S
      [] Sample_FORMAT(S) = "Float64" -> SOXR_FLOAT64_S

\* lib.rs, fn interleaved.
interleaved(S) ==
    CASE Sample_FORMAT(S) = "Int16" -> SOXR_INT16_I
      [] Sample_FORMAT(S) = "Int32" -> SOXR_INT32_I
      [] Sample_FORMAT(S) = "Float32" -> SOXR_FLOAT32_I
      [] Sample_FORMAT(S) = "Float64" -> SOXR_FLOAT64_I

\* The types that implement IoFormat.
Layouts == {"Mono", "Stereo", "Interleaved", "Planar"}

\* The CHANNELS parameters tried for Interleaved and Planar.
LayoutChannels(layout) ==
    CASE layout = "Mono" -> {1}
      [] layout = "Stereo" -> {2}
      [] OTHER -> 1..MaxChannels

\* IoFormat::channels().
IoFormat_channels(layout, CHANNELS) ==
    CASE layout = "Mono" -> 1
      [] layout = "Stereo" -> 2
      [] layout = "Interleaved" -> CHANNELS
      [] layout = "Planar" -> CHANNELS

\* IoFormat::datatype().
IoFormat_datatype(layout, S) ==
    CASE layout = "Mono" -> format_interleaved(S)
      [] layout = "Stereo" -> format_interleaved(S)
      [] layout = "Interleaved" -> format_interleaved(S)
      [] layout = "Planar" -> format_planar(S)

\* Soxr::<In, Out, N>::io_spec().
io_spec(In, Out) ==
    [itype |-> interleaved(In), otype |-> interleaved(Out),
     scale |-> 1, e |-> NullPtr, flags |-> 0]

NoFormat ==
    [dt |-> [layout |-> "none", S |-> "none", channels |-> 0, datatype |-> 0],
     io |-> [In |-> "none", Out |-> "none", spec |-> io_spec("i16", "i16")]]

\* A caller asks a layout type for its channel count and datatype.
Datatype ==
    \E layout \in Layouts, S \in SampleTypes :
      \E CHANNELS \in LayoutChannels(layout) :
        /\ format' = [format EXCEPT !.dt =
                         [layout |-> layout, S |-> S,
                          channels |-> IoFormat_channels(layout, CHANNELS),
                          datatype |-> IoFormat_datatype(layout, S)]]
        /\ UNCHANGED <<seqVars, planar, concVars, runtime>>

\* A session type builds the io spec it would give to soxr_create.
IoSpec ==
    \E In \in SampleTypes, Out \in SampleTypes :
        /\ format' = [format EXCEPT !.io =
                         [In |-> In, Out |-> Out, spec |-> io_spec(In, Out)]]
        /\ UNCHANGED <<seqVars, planar, concVars, runtime>>

----------------------------------------------------------------------------
(* params.rs: RuntimeSpec *)

\* The c_uint values callers pass to RuntimeSpec::new and to the setters.
CUintValues == 0..MaxValue

\* The values of Interpolation, as u8.
Interpolation == {0, 2, 3}

\* sys::soxr_runtime_spec(num_threads): the engine's defaults.
soxr_runtime_spec(num_threads) ==
    [log2_min_dft_size |-> 10, log2_large_dft_size |-> 17,
     coef_size_kbytes |-> 400, num_threads |-> num_threads, flags |-> 0]

RuntimeSpec_from_raw(raw) == [raw |-> raw]

RuntimeSpec_new(num_threads) ==
    RuntimeSpec_from_raw(soxr_runtime_spec(num_threads))

log2_min_dft_size(self) == self.raw.log2_min_dft_size

set_log2_min_dft_size(self, v) ==
    [self EXCEPT !.raw.log2_min_dft_size = v]

with_log2_min_dft_size(self, v) == set_log2_min_dft_size(self, v)

log2_large_dft_size(self) == self.raw.log2_large_dft_size

set_log2_large_dft_size(self, v) ==
    [self EXCEPT !.raw.log2_large_dft_size = v]

with_log2_large_dft_size(self, v) == set_log2_large_dft_size(self, v)

coef_size_kbytes(self) == self.raw.log2_large_dft_size

set_coef_size_kbytes(self, v) ==
    [self EXCEPT !.raw.coef_size_kbytes = v]

with_coef_size_kbytes(self, v) == set_coef_size_kbytes(self, v)

num_threads(self) == self.raw.num_threads

set_num_threads(self, v) ==
    [self EXCEPT !.raw.num_threads = v]

with_num_threads(self, v) == set_num_threads(self, v)

\* interpolation(): flags & 3, with the unspecified value 1 read as Auto.
interpolation(self) ==
    LET interp == self.raw.flags % 4
    IN IF interp = 1 THEN 0 ELSE interp

\* set_interpolation: flags &= !3; flags |= interpolation.
set_interpolation(self, i) ==
    [self EXCEPT !.raw.flags = (self.raw.flags - (self.raw.flags % 4)) + i]

with_interpolation(self, i) == set_interpolation(self, i)

\* The c_uint fields of RuntimeSpec that have a getter and setters.
RuntimeFields ==
    {"log2_min_dft_size", "log2_large_dft_size", "coef_size_kbytes",
     "num_threads"}

\* The getter named f.
Getter(f, self) ==
    CASE f = "log2_min_dft_size" -> log2_min_dft_size(self)
      [] f = "log2_large_dft_size" -> log2_large_dft_size(self)
      [] f = "coef_size_kbytes" -> coef_size_kbytes(self)
      [] f = "num_threads" -> num_threads(self)
      [] f = "interpolation" -> interpolation(self)

\* The setter set_<f>.
Setter(f, self, v) ==
    CASE f = "log2_min_dft_size" -> set_log2_min_dft_size(self, v)
      [] f = "log2_large_dft_size" -> set_log2_large_dft_size(self, v)
      [] f = "coef_size_kbytes" -> set_coef_size_kbytes(self, v)
      [] f = "num_threads" -> set_num_threads(self, v)
      [] f = "interpolation" -> set_interpolation(self, v)

\* The chainable method with_<f>.
Chained(f, self, v) ==
    CASE f = "log2_min_dft_size" -> with_log2_min_dft_size(self, v)
      [] f = "log2_large_dft_size" -> with_log2_large_dft_size(self, v)
      [] f = "coef_size_kbytes" -> with_coef_size_kbytes(self, v)
      [] f = "num_threads" -> with_num_threads(self, v)
      [] f = "interpolation" -> with_interpolation(self, v)

\* What every getter returns on self.
Getters(self) ==
    [f \in RuntimeFields \cup {"interpolation"} |-> Getter(f, self)]

\* A call on the RuntimeSpec: the method, its field and argument, and what
\* the getters returned before it.
CallOn(op, field, v, before) ==
    [op |-> op, field |-> field, v |-> v, before |-> before]

NoRuntime ==
    [st |-> "none", self |-> RuntimeSpec_new(0),
     last |-> CallOn("none", "none", 0, Getters(RuntimeSpec_new(0)))]

\* RuntimeSpec::new(num_threads).
NewRuntimeSpec ==
    /\ \E n \in CUintValues :
         runtime' = [st |-> "built", self |-> RuntimeSpec_new(n),
                     last |-> CallOn("new", "num_threads", n,
                                     Getters(RuntimeSpec_new(n)))]
    /\ UNCHANGED <<seqVars, planar, concVars, format>>

\* set_<field>(v) on the caller's RuntimeSpec.
SetField ==
    /\ runtime.st = "built"
    /\ \E f \in RuntimeFields, v \in CUintValues :
         runtime' = [runtime EXCEPT
                        !.self = Setter(f, runtime.self, v),
                        !.last = CallOn("set", f, v, Getters(runtime.self))]
    /\ UNCHANGED <<seqVars, planar, concVars, format>>

\* with_<field>(v): the caller's RuntimeSpec is replaced by the result.
WithField ==
    /\ runtime.st = "built"
    /\ \E f \in RuntimeFields, v \in CUintValues :
         runtime' = [runtime EXCEPT
                        !.self = Chained(f, runtime.self, v),
                        !.last = CallOn("with", f, v, Getters(runtime.self))]
    /\ UNCHANGED <<seqVars, planar, concVars, format>>

\* set_interpolation(i) on the caller's RuntimeSpec.
SetInterpolation ==
    /\ runtime.st = "built"
    /\ \E i \in Interpolation :
         runtime' = [runtime EXCEPT
                        !.self = Setter("interpolation", runtime.self, i),
                        !.last = CallOn("set", "interpolation", i,
                                        Getters(runtime.self))]
    /\ UNCHANGED <<seqVars, planar, concVars, format>>

\* with_interpolation(i).
WithInterpolation ==
    /\ runtime.st = "built"
    /\ \E i \in Interpolation :
         runtime' = [runtime EXCEPT
                        !.self = Chained("interpolation", runtime.self, i),
                        !.last = CallOn("with", "interpolation", i,
                                        Getters(runtime.self))]
    /\ UNCHANGED <<seqVars, planar, concVars, format>>

----------------------------------------------------------------------------
Init ==
    /\ session = NoSession("none", <<>>, <<>>)
    /\ engine = [h \in Handles |-> Unallocated]
    /\ allocated = 0
    /\ lastCall = NoneMade
    /\ lastOp = NoOp
    /\ planar = NoPlanar
    /\ owner = 1
    /\ borrows = [t \in Threads |-> "none"]
    /\ inflight = [t \in Threads |-> "none"]
    /\ format = NoFormat
    /\ runtime = NoRuntime

Next ==
    \/ New
    \/ Process
    \/ Drain
    \/ Clear
    \/ AsPtr
    \/ Drop

Spec == Init /\ [][Next]_vars

NextPlanar ==
    \/ NewPlanarBuf
    \/ NewPlanarMut

SpecPlanar == Init /\ [][NextPlanar]_vars

NextFormat ==
    \/ Datatype
    \/ IoSpec

SpecFormat == Init /\ [][NextFormat]_vars

NextParams ==
    \/ NewRuntimeSpec
    \/ SetField
    \/ WithField
    \/ SetInterpolation
    \/ WithInterpolation

SpecParams == Init /\ [][NextParams]_vars

NextThreads ==
    \E t \in Threads :
        \/ \E u \in Threads : Move(t, u)
        \/ BorrowShared(t)
        \/ BorrowMut(t)
        \/ Release(t)
        \/ \E m \in Methods : Begin(t, m)
        \/ End(t)
        \/ DropOwned(t)

\* A stereo session right after a successful Soxr::new, owned by thread 1.
InitThreads ==
    LET n == Usize(2, 0, 0, 0)
        rates == <<48000, 44100>>
        reply == [ptr |-> 1, error |-> NullPtr]
        r == new_with_params(n, rates, reply)
    IN /\ session = [st |-> "live", soxr |-> r.soxr, N |-> n,
                     creates |-> r.calls, zero |-> "none",
                        taken |-> FALSE]
       /\ engine = [h \in Handles |->
                      IF h = reply.ptr
                      THEN FreshEngine(r.calls[1].channels, rates)
                      ELSE Unallocated]
       /\ allocated = 1
       /\ lastCall = [call |-> r.calls[1], ret |-> NullPtr, idone |-> 0,
                      odone |-> 0, live |-> TRUE]
       /\ lastOp = Op("new", 0, 0, r.res, NullPtr, 1, 0)
       /\ planar = NoPlanar
       /\ owner = 1
       /\ borrows = [t \in Threads |-> "none"]
       /\ inflight = [t \in Threads |-> "none"]
       /\ format = NoFormat
       /\ runtime = NoRuntime

SpecThreads == InitThreads /\ [][NextThreads]_vars

----------------------------------------------------------------------------
(* Properties *)

\* Whether a usize value fits the 32 bits of c_uint.
FitsCUint(n) == n[3] = 0 /\ n[4] = 0

\* C1: soxr_delete is called exactly once for each handle a successful
\* soxr_create returned and never for another one; a handle that is still
\* live is owned by the one live session (it is not leaked, and a failed
\* creation leaves none behind).
C1_HandleReleasedExactlyOnce ==
    /\ \A h \in Handles :
         /\ h > allocated => engine[h].status = "unalloc"
         /\ h <= allocated => engine[h].status \in {"live", "deleted"}
         /\ engine[h].status = "unalloc" => engine[h].deletes = 0
         /\ engine[h].status = "deleted" => engine[h].deletes = 1
         /\ engine[h].status = "live" =>
              /\ engine[h].deletes = 0
              /\ session.st = "live" /\ session.soxr = h
    /\ session.st = "live" => IsLive(session.soxr)
    /\ session.st # "live" => session.soxr = NullPtr
    /\ lastCall.call.fn = "delete" => lastCall.call.h \in 1..allocated
    /\ lastOp.op = "drop" => lastOp.ncalls = 1
    /\ (lastOp.op = "new" /\ lastOp.res.tag = "Err") =>
          /\ session.st = "failed"
          /\ \A h \in Handles : engine[h].status # "live"

\* A second session was created and dropped after the first one had been
\* created and dropped.
C1_Witness ==
    /\ lastOp.op = "drop"
    /\ allocated = 2
    /\ engine[1].deletes = 1
    /\ engine[2].deletes = 1

\* C2: Soxr::new_with_params::<N> with an N that does not fit c_uint returns
\* the "channel count" error without calling soxr_create; with an N that
\* fits, it calls soxr_create exactly once, with that N.
C2_ChannelCountChecked ==
    lastOp.op = "new" =>
        /\ ~FitsCUint(session.N) =>
              /\ lastOp.res = Err(CHANNEL_COUNT_TOO_LARGE)
              /\ session.st = "failed"
              /\ session.creates = <<>>
              /\ lastOp.ncalls = 0
        /\ FitsCUint(session.N) =>
              /\ Len(session.creates) = 1
              /\ lastOp.ncalls = 1
              /\ session.creates[1].fn = "create"
              /\ Widen(session.creates[1].channels) = session.N
              /\ lastCall.call = session.creates[1]
              /\ (lastOp.res.tag = "Err" => lastOp.res.err.src = "engine")

\* Creation with N = 2^32 was refused after an earlier session was created.
C2_Witness ==
    /\ lastOp.op = "new"
    /\ session.N = Usize(0, 0, 1, 0)
    /\ session.st = "failed"
    /\ allocated = 1

\* C3: every engine call of process, drain, clear and drop is made with a
\* handle that soxr_create returned and soxr_delete has not yet got; as_ptr
\* gives that same live handle; the last call on a deleted handle is its
\* soxr_delete.
C3_NoUseAfterDelete ==
    /\ lastCall.live
    /\ lastCall.call.fn \in {"process", "clear", "delete"} =>
          lastCall.call.h \in 1..allocated
    /\ lastOp.op \in {"process", "drain", "clear"} =>
          /\ session.st = "live"
          /\ lastCall.call.h = session.soxr
          /\ IsLive(lastCall.call.h)
    /\ lastOp.op = "as_ptr" => lastOp.ptr = session.soxr /\ IsLive(lastOp.ptr)
    /\ \A h \in Handles :
          (engine[h].status = "deleted" /\ lastCall.call.h = h) =>
              lastCall.call.fn = "delete"
    /\ session.st = "dropped" => lastOp.op = "drop"

\* The second session is drained after the first one was destroyed.
C3_Witness ==
    /\ lastOp.op = "drain"
    /\ engine[1].status = "deleted"
    /\ lastCall.call.h = 2
    /\ lastCall.call.fn = "process"

\* A step in which drain returned Ok.
DrainReturnedOk == lastOp'.op = "drain" /\ lastOp'.res.tag = "Ok"

\* C4 as stated: once a drain has returned 0, every later drain (with no
\* process or clear in between) returns 0.
C4_DrainZeroIsTerminal ==
    [][(DrainReturnedOk /\ session.zero # "none")
          => lastOp'.res.output_frames = 0]_vars

\* C4, amended: drain calls soxr_process with a null input, input length 0,
\* no consumed-count pointer and the output buffer's frame count.  With a
\* non-empty output buffer a successful drain returns 0 exactly when the
\* engine holds no frame, and otherwise takes at least one held frame out (so
\* repeated drains reach 0); once such a drain has returned 0, every later
\* successful drain, with no process or clear in between, returns 0.
C4_DrainDryIsTerminal ==
    [][DrainReturnedOk =>
        LET n == lastOp'.res.output_frames
            h == session.soxr
        IN /\ lastCall'.call = Call("process", h, "null", UsizeOf(0), "null",
                                    UsizeOf(lastOp'.output_len), <<>>, <<>>)
           /\ n = lastCall'.odone
           /\ n <= lastOp'.output_len
           /\ engine'[h].held = engine[h].held - n
           /\ lastOp'.output_len > 0 => (n = 0 <=> engine[h].held = 0)
           /\ session.zero = "nonempty" => n = 0
           /\ (n = 0 /\ lastOp'.output_len > 0) => session'.zero = "nonempty"
      ]_vars

\* Frames were processed, a drain took frames out, a drain into a non-empty
\* buffer returned 0, and the next drain into a non-empty buffer, with no
\* process or clear in between, returned 0 again.
C4_Witness ==
    /\ lastOp.op = "drain"
    /\ lastOp.res = OkCount(0)
    /\ lastOp.output_len > 0
    /\ lastOp.zero_before = "nonempty"
    /\ session.taken
    /\ session.zero = "nonempty"
    /\ engine[session.soxr].flushing
    /\ lastOp.held_before = 0

\* C5: process passes the frame counts of its input and output slices to
\* soxr_process and returns Ok with exactly the counts the engine wrote,
\* which are at most the frames supplied and the output capacity; fewer
\* frames than supplied or available is Ok, not an error.
C5_ProcessReportsEngineCounts ==
    lastOp.op = "process" =>
        /\ lastCall.call.fn = "process"
        /\ lastCall.call.inp = "buf" /\ lastCall.call.idone = "ptr"
        /\ lastCall.call.ilen = UsizeOf(lastOp.input_len)
        /\ lastCall.call.olen = UsizeOf(lastOp.output_len)
        /\ lastCall.ret = NullPtr =>
              /\ lastOp.res = Processed(lastCall.idone, lastCall.odone)
              /\ lastOp.res.input_frames <= lastOp.input_len
              /\ lastOp.res.output_frames <= lastOp.output_len

\* A stereo process call that consumed and produced less than it was given.
C5_Witness ==
    /\ lastOp.op = "process"
    /\ session.N = Usize(2, 0, 0, 0)
    /\ lastOp.res.tag = "Ok"
    /\ lastOp.res.input_frames = 1 /\ lastOp.input_len = 2
    /\ lastOp.res.output_frames = 1 /\ lastOp.output_len = 2

\* C6: process, drain and clear return Err exactly when the engine call
\* returns a non-null diagnostic, and then the Err carries that diagnostic
\* and no frame counts, one engine call was made, and the session is still
\* live with its handle, so that clear and further calls can be made.
C6_ErrorIffDiagnostic ==
    lastOp.op \in {"process", "drain", "clear"} =>
        /\ lastOp.res.tag = "Err" <=> lastCall.ret # NullPtr
        /\ lastOp.ncalls = 1
        /\ lastOp.res.tag = "Err" =>
              /\ lastOp.res = Err(Error_from_raw(lastCall.ret))
              /\ DOMAIN lastOp.res = {"tag", "err"}
              /\ session.st = "live"
              /\ IsLive(session.soxr)
              /\ session.soxr = lastCall.call.h
              /\ ENABLED Clear /\ ENABLED Process /\ ENABLED Drain

\* A process call failed while the engine held frames.
C6_Witness ==
    /\ lastOp.op = "process"
    /\ lastOp.res.tag = "Err"
    /\ lastOp.held_before > 0
    /\ lastCall.ret \in Diags

\* C7: a successful clear calls soxr_clear on the session's handle and leaves
\* the session live with that handle; the engine state of the handle is then
\* the state soxr_create gave it for the same channel count and rates.
C7_ClearResets ==
    (lastOp.op = "clear" /\ lastOp.res.tag = "Ok") =>
        /\ session.st = "live"
        /\ IsLive(session.soxr)
        /\ lastCall.call = Call("clear", session.soxr, "null", UsizeOf(0),
                                "null", UsizeOf(0), <<>>, <<>>)
        /\ lastCall.ret = NullPtr
        /\ engine[session.soxr] =
              FreshEngine(session.creates[1].channels, session.creates[1].rates)

\* A clear succeeded on an engine that held MaxHeld frames, and left none.
C7_Witness ==
    /\ lastOp.op = "clear"
    /\ lastOp.res.tag = "Ok"
    /\ lastOp.held_before = MaxHeld
    /\ engine[session.soxr].held = 0

\* C8: at most one engine call (process, drain, clear, delete) is in flight
\* on the session's handle, whichever threads own or borrow the session.
C8_OneEngineCallInFlight ==
    /\ Cardinality({t \in Threads : inflight[t] \in EngineCalls}) <= 1
    /\ \A t \in Threads :
          inflight[t] \in {"process", "drain", "clear"} =>
              /\ borrows[t] = "mut"
              /\ \A u \in Threads \ {t} : borrows[u] = "none"
              /\ session.st = "live" /\ IsLive(session.soxr)
              /\ lastOp.op = inflight[t]
              /\ lastCall.call.fn =
                    (IF inflight[t] = "clear" THEN "clear" ELSE "process")
              /\ lastCall.call.h = session.soxr /\ lastCall.live
    /\ \A t \in Threads :
          inflight[t] = "delete" =>
              /\ owner = t
              /\ session.st = "dropped" /\ lastCall.call.fn = "delete"
              /\ lastCall.live

\* The session was moved to another thread, and a third one drains it.
C8_Witness ==
    /\ owner # 1
    /\ \E t \in Threads : t # owner /\ t # 1 /\ inflight[t] = "drain"

\* C10: PlanarBuf::new and PlanarMut::new succeed exactly when every plane
\* has the length of the first, and then frames() is that length; otherwise
\* they panic at the first plane of another length, having called nothing.
C10_PlanarLengthsChecked ==
    planar.kind # "none" =>
        LET planes == planar.planes
            equal == \A i \in 1..Len(planes) : planes[i] = planes[1]
        IN /\ planar.out.tag = "Ok" <=> equal
           /\ planar.out.tag \in {"Ok", "Panic"}
           /\ planar.out.calls = <<>>
           /\ lastCall = NoneMade /\ allocated = 0
           /\ (planar.out.tag = "Ok" /\ Len(planes) > 0) =>
                 /\ Planar_frames(planar.out) = planes[1]
                 /\ \A i \in 1..Len(planes) :
                       planes[i] = Planar_frames(planar.out)
           /\ (planar.out.tag = "Ok" /\ Len(planes) = 0) =>
                 Planar_frames(planar.out) = 0
           /\ planar.out.tag = "Panic" =>
                 /\ planar.out.index \in 1..(Len(planes) - 1)
                 /\ planes[planar.out.index + 1] = planar.out.length
                 /\ planar.out.length # planar.out.expected
                 /\ planar.out.expected = planes[1]
                 /\ \A i \in 1..planar.out.index : planes[i] = planes[1]

\* PlanarMut::new panicked on a third plane shorter than the first two.
C10_Witness ==
    /\ planar.kind = "PlanarMut"
    /\ planar.out.tag = "Panic"
    /\ planar.out.index = 2
    /\ planar.out.length < planar.out.expected

\* C9 as stated: a live session offers a rate-change operation.
C9_RateChangeOffered ==
    session.st = "live" =>
        \E m \in {"set_rates", "set_io_ratio"} : m \in SoxrMethods

InterleavedCodes ==
    {SOXR_INT16_I, SOXR_INT32_I, SOXR_FLOAT32_I, SOXR_FLOAT64_I}

PlanarCodes ==
    {SOXR_INT16_S, SOXR_INT32_S, SOXR_FLOAT32_S, SOXR_FLOAT64_S}

\* C11: every sample type has one format among the four, and each format has
\* one interleaved and one planar code; the eight codes differ; Float32 and
\* Float64 get the float32 and float64 codes, not the 16-bit integer one;
\* the mapping of lib.rs agrees with the one of format.rs, also on the codes
\* a layout and an io spec were actually given; Mono, Stereo and Interleaved
\* report the interleaved code and Planar the planar code of their sample
\* type, with the layout's channel count.
C11_DatatypeMapping ==
    /\ \A S \in SampleTypes :
          /\ Sample_FORMAT(S) \in SampleFormat
          /\ format_interleaved(S) \in InterleavedCodes
          /\ format_planar(S) \in PlanarCodes
          /\ interleaved(S) = format_interleaved(S)
          /\ Sample_FORMAT(S) = "Float32" =>
                /\ format_interleaved(S) = SOXR_FLOAT32_I
                /\ format_planar(S) = SOXR_FLOAT32_S
          /\ Sample_FORMAT(S) = "Float64" =>
                /\ format_interleaved(S) = SOXR_FLOAT64_I
                /\ format_planar(S) = SOXR_FLOAT64_S
          /\ Sample_FORMAT(S) \in {"Float32", "Float64"} =>
                /\ format_interleaved(S) # SOXR_INT16_I
                /\ format_planar(S) # SOXR_INT16_S
    /\ {Sample_FORMAT(S) : S \in SampleTypes} = SampleFormat
    /\ Cardinality({format_interleaved(S) : S \in SampleTypes}
                     \cup {format_planar(S) : S \in SampleTypes}) = 8
    /\ format.dt.layout # "none" =>
          /\ format.dt.layout = "Planar" =>
                format.dt.datatype = format_planar(format.dt.S)
          /\ format.dt.layout \in {"Mono", "Stereo", "Interleaved"} =>
                format.dt.datatype = format_interleaved(format.dt.S)
          /\ format.dt.layout = "Mono" => format.dt.channels = 1
          /\ format.dt.layout = "Stereo" => format.dt.channels = 2
          /\ format.dt.channels \in 1..MaxChannels
    /\ (format.dt.layout # "none" /\ format.io.In # "none") =>
          /\ format.io.spec.itype \in InterleavedCodes
          /\ format.io.spec.otype \in InterleavedCodes
          /\ (format.io.In = format.io.Out)
                <=> (format.io.spec.itype = format.io.spec.otype)
          /\ (format.dt.layout # "Planar" /\ format.dt.S = format.io.In)
                <=> (format.dt.datatype = format.io.spec.itype)
          /\ (format.dt.layout # "Planar" /\ format.dt.S = format.io.Out)
                <=> (format.dt.datatype = format.io.spec.otype)

\* A planar layout of f64 reported the planar float64 code, and an io spec
\* from f32 to f64 holds the interleaved float32 and float64 codes.
C11_Witness ==
    /\ format.dt.layout = "Planar" /\ format.dt.S = "f64"
    /\ format.dt.channels = MaxChannels
    /\ format.dt.datatype = SOXR_FLOAT64_S
    /\ format.io.In = "f32" /\ format.io.Out = "f64"
    /\ format.io.spec.itype = SOXR_FLOAT32_I
    /\ format.io.spec.otype = SOXR_FLOAT64_I

\* C12 as stated: after set_<f>(v) or with_<f>(v) on a RuntimeSpec, for f one
\* of log2_min_dft_size, log2_large_dft_size, coef_size_kbytes and
\* num_threads, the getter of f returns v and every other getter returns
\* what it returned before the call.
C12_RuntimeSpecRoundTrip ==
    (runtime.last.op \in {"set", "with"}
        /\ runtime.last.field \in RuntimeFields) =>
        /\ Getter(runtime.last.field, runtime.self) = runtime.last.v
        /\ \A g \in (RuntimeFields \cup {"interpolation"})
                       \ {runtime.last.field} :
              Getter(g, runtime.self) = runtime.last.before[g]

====
